---- MODULE Spec2Model ----
(***************************************************************************)
(* Model of the GCS geometry engine of gcs_python (src/gcs.py): skeleton,  *)
(* gcs_mesh, rotate_mesh, gcs_mesh_rotated, apex_radius.                   *)
(*                                                                         *)
(* Numbers.  The Python code computes in IEEE doubles.  The model computes *)
(* the same formulas in exact arithmetic: a real number is a rational      *)
(* n/d, or a + b*sqrt(q) where sqrt(q) is irrational; IEEE rounding is not *)
(* modelled.  A division by zero gives the non-finite value NF, as numpy's *)
(* float division gives inf/nan (with a warning) and raises nothing.       *)
(*                                                                         *)
(* Angles.  An angle is q*(pi/2) + m*G with integers q, m, where G is the  *)
(* angle with cos G = 4/5, sin G = 3/5, so every sine and cosine the code  *)
(* takes is an exact rational.  The inputs are drawn from the angles of    *)
(* this form for which numpy.linspace stays in this form.                  *)
(***************************************************************************)
EXTENDS Integers, Sequences, FiniteSets, TLC

(***************************************************************************)
(* Rationals                                                               *)
(***************************************************************************)
\* F(x) with x evaluated once (a local variable of the Python code)
Bind(x, F(_)) == CHOOSE r \in {F(v) : v \in {x}} : TRUE

Abs(x) == IF x < 0 THEN -x ELSE x

Sign(x) == IF x < 0 THEN -1 ELSE IF x = 0 THEN 0 ELSE 1

RECURSIVE Gcd(_, _)
Gcd(a, b) == IF b = 0 THEN a ELSE Gcd(b, a % b)

\* the non-finite float (inf or nan)
NF == [n |-> 0, d |-> 0]

IsFinite(x) == x.d # 0

\* the rational n/d in lowest terms with a positive denominator
Rat(n, d) ==
    IF d = 0 THEN NF
    ELSE Bind(Gcd(Abs(n), Abs(d)) * (IF d < 0 THEN -1 ELSE 1), LAMBDA g :
            [n |-> n \div g, d |-> d \div g])

RInt(i) == [n |-> i, d |-> 1]

Zero == RInt(0)

One == RInt(1)

RNeg(x) == IF IsFinite(x) THEN [n |-> -x.n, d |-> x.d] ELSE NF

RAdd(x, y) ==
    IF ~IsFinite(x) \/ ~IsFinite(y) THEN NF
    ELSE IF x.n = 0 THEN y
    ELSE IF y.n = 0 THEN x
    ELSE Bind(Gcd(x.d, y.d), LAMBDA g :
            Rat(x.n * (y.d \div g) + y.n * (x.d \div g), (x.d \div g) * y.d))

RSub(x, y) == RAdd(x, RNeg(y))

\* (x and y are in lowest terms, so cancelling crosswise leaves lowest terms)
RMul(x, y) ==
    IF ~IsFinite(x) \/ ~IsFinite(y) THEN NF
    ELSE IF x.n = 0 \/ y.n = 0 THEN [n |-> 0, d |-> 1]
    ELSE Bind(Gcd(Abs(x.n), y.d), LAMBDA g1 :
         Bind(Gcd(Abs(y.n), x.d), LAMBDA g2 :
            [n |-> (x.n \div g1) * (y.n \div g2), d |-> (x.d \div g2) * (y.d \div g1)]))

\* float division: a zero divisor gives inf or nan, never an exception
RDiv(x, y) ==
    IF ~IsFinite(x) \/ ~IsFinite(y) \/ y.n = 0 THEN NF
    ELSE RMul(x, [n |-> Sign(y.n) * y.d, d |-> Abs(y.n)])

RSq(x) == RMul(x, x)

RLess(x, y) == x.n * y.d < y.n * x.d

RECURSIVE Newton(_, _)
Newton(n, x) ==
    LET y == (x + n \div x) \div 2
    IN  IF y >= x THEN x ELSE Newton(n, y)

\* floor of the square root of a natural number
ISqrt(n) == IF n < 2 THEN n ELSE Newton(n, n \div 2 + 1)

IsSquare(n) == n >= 0 /\ Bind(ISqrt(n), LAMBDA r : r * r = n)

(***************************************************************************)
(* Reals a + b*sqrt(q): b = 0 and q = 1 for a rational, otherwise q is a   *)
(* positive rational that is not a square, so the form is unique.          *)
(***************************************************************************)
NumNF == [a |-> NF, b |-> Zero, q |-> One]

Num(x) == IF IsFinite(x) THEN [a |-> x, b |-> Zero, q |-> One] ELSE NumNF

NumFinite(x) == IsFinite(x.a)

IsRational(x) == NumFinite(x) /\ x.b = Zero

\* numpy.sqrt of a rational: exact root, irrational root, or nan
Sqrt(x) ==
    IF ~IsFinite(x) \/ x.n < 0 THEN NumNF
    ELSE IF IsSquare(x.n) /\ IsSquare(x.d)
         THEN Num(Rat(ISqrt(x.n), ISqrt(x.d)))
         ELSE [a |-> Zero, b |-> One, q |-> x]

\* x * c for a rational c
Scale(x, c) ==
    IF ~NumFinite(x) \/ ~IsFinite(c) THEN NumNF
    ELSE LET b == RMul(x.b, c)
         IN  [a |-> RMul(x.a, c), b |-> b, q |-> IF b = Zero THEN One ELSE x.q]

\* x + y, where the irrational parts (if any) are multiples of one root
Plus(x, y) ==
    IF ~NumFinite(x) \/ ~NumFinite(y) THEN NumNF
    ELSE IF x.b # Zero /\ y.b # Zero /\ x.q # y.q THEN NumNF
    ELSE LET b == RAdd(x.b, y.b)
         IN  [a |-> RAdd(x.a, y.a), b |-> b,
              q |-> IF b = Zero THEN One ELSE IF x.b # Zero THEN x.q ELSE y.q]

NumNeg(x) == Scale(x, RInt(-1))

(***************************************************************************)
(* Angles q*(pi/2) + m*G                                                   *)
(***************************************************************************)
GCos == Rat(4, 5)

GSin == Rat(3, 5)

Angle(q, m) == [q |-> q, m |-> m]

ANeg(x) == Angle(-x.q, -x.m)

AAdd(x, y) == Angle(x.q + y.q, x.m + y.m)

ASub(x, y) == Angle(x.q - y.q, x.m - y.m)

AZero == Angle(0, 0)

HalfPi == Angle(1, 0)

Pi == Angle(2, 0)

TwoPi == Angle(4, 0)

\* <<cos, sin>> of m*G, by the addition theorems
RECURSIVE GPow(_)
GPow(m) ==
    IF m = 0 THEN <<One, Zero>>
    ELSE IF m < 0 THEN LET p == GPow(-m) IN <<p[1], RNeg(p[2])>>
    ELSE LET p == GPow(m - 1)
         IN  <<RSub(RMul(p[1], GCos), RMul(p[2], GSin)),
               RAdd(RMul(p[2], GCos), RMul(p[1], GSin))>>

\* <<cos, sin>> turned by q quarter turns
Turn(p, q) ==
    LET r == q % 4
    IN  IF r = 0 THEN p
        ELSE IF r = 1 THEN <<RNeg(p[2]), p[1]>>
        ELSE IF r = 2 THEN <<RNeg(p[1]), RNeg(p[2])>>
        ELSE <<p[2], RNeg(p[1])>>

\* the table of <<cos, sin>> of the multiples of G the model uses
MaxMult == 6

GTable == [m \in -MaxMult..MaxMult |-> GPow(m)]

\* radians(25) is no angle of the lattice: it is an angle of its own, with
\* the cosine and sine that numpy gives, rounded to four decimals
Radians25 == [q |-> 0, m |-> 0, deg |-> 25]

Cos25 == Rat(9063, 10000)

Sin25 == Rat(4226, 10000)

cos(x) == IF x = Radians25 THEN Cos25 ELSE Turn(GTable[x.m], x.q)[1]

sin(x) == IF x = Radians25 THEN Sin25 ELSE Turn(GTable[x.m], x.q)[2]

tan(x) == RDiv(sin(x), cos(x))

\* numpy.arcsin for the ratios k whose arcsine is an angle of the model
ArcSinRange == {Angle(0, 0), Angle(0, 1), Angle(1, -1), Angle(1, 0)}

arcsin(k) == CHOOSE g \in ArcSinRange : sin(g) = k

(***************************************************************************)
(* numpy helpers.  Sequences are 1-based; At reads them 0-based like the   *)
(* Python code.                                                            *)
(***************************************************************************)
At(seq, i) == seq[i + 1]

\* mutant of flipud: the reversal forgotten
flipudNone(seq) == seq

\* numpy.flipud
flipud(seq) == [i \in 1..Len(seq) |-> seq[Len(seq) + 1 - i]]

\* mutant of From1: the slice seq[0:], which keeps the shared sample
From0(seq) == seq

\* the slice seq[1:]
From1(seq) == IF seq = <<>> THEN <<>> ELSE Tail(seq)

\* numpy.linspace(start, stop, num) on rationals
linspace(start, stop, num) ==
    [i \in 1..num |->
        IF num = 1 THEN start
        ELSE RAdd(start, RMul(RInt(i - 1), RDiv(RSub(stop, start), RInt(num - 1))))]

\* numpy.linspace(start, stop, num) on angles
alinspace(start, stop, num) ==
    [i \in 1..num |->
        IF num = 1 THEN start
        ELSE LET d == ASub(stop, start)
             IN  Angle(start.q + (i - 1) * (d.q \div (num - 1)),
                       start.m + (i - 1) * (d.m \div (num - 1)))]

\* linspace(start, stop, num) on angles is exact
Divides(n, a) == a % n = 0

ExactSpace(start, stop, num) ==
    num <= 2 \/ (Divides(num - 1, stop.q - start.q) /\ Divides(num - 1, stop.m - start.m))

\* numpy.outer(t, vec): one row t[i] * vec per sample
outer(t, vec) == [i \in 1..Len(t) |-> [j \in 1..3 |-> RMul(t[i], vec[j])]]

\* numpy.linalg.norm(rows, axis=1)
norm(rows) ==
    [i \in 1..Len(rows) |->
        Sqrt(RAdd(RAdd(RSq(rows[i][1]), RSq(rows[i][2])), RSq(rows[i][3])))]

(***************************************************************************)
(* skeleton(alpha, distjunc, straight_vertices, front_vertices, k)         *)
(***************************************************************************)
\* mutant of psl: the legs start on the limb, at pRstart and pLstart
pslFromLimb(alpha, distjunc, straight_vertices, side) ==
    outer([i \in 1..straight_vertices |->
             RAdd(One, linspace(Zero, distjunc, straight_vertices)[i])],
          <<Zero, RMul(RInt(side), sin(alpha)), cos(alpha)>>)

\* pslR, pslL: the points of the straight legs
psl(alpha, distjunc, straight_vertices, side) ==
    outer(linspace(Zero, distjunc, straight_vertices),
          <<Zero, RMul(RInt(side), sin(alpha)), cos(alpha)>>)

\* rsl: radius along the straight legs
rsl(alpha, distjunc, straight_vertices, k) ==
    LET n == norm(psl(alpha, distjunc, straight_vertices, 1))
    IN  [i \in 1..straight_vertices |-> Scale(n[i], tan(arcsin(k)))]

\* casl: cross-section angle along the right leg
casl(alpha, straight_vertices) == [i \in 1..straight_vertices |-> ANeg(alpha)]

\* beta: the samples of the front arc
beta(alpha, front_vertices) == alinspace(ANeg(alpha), HalfPi, front_vertices)

h_(alpha, distjunc) == RDiv(distjunc, cos(alpha))

rho_(alpha, distjunc) == RMul(distjunc, tan(alpha))

\* mutant of X0: k in place of k ** 2 in the numerator
X0LinearK(alpha, distjunc, k, b) ==
    RDiv(RAdd(rho_(alpha, distjunc), RMul(RMul(h_(alpha, distjunc), k), sin(b))),
         RSub(One, RSq(k)))

X0(alpha, distjunc, k, b) ==
    RDiv(RAdd(rho_(alpha, distjunc), RMul(RMul(h_(alpha, distjunc), RSq(k)), sin(b))),
         RSub(One, RSq(k)))

\* rc: radius at front-arc parameter b
rc(alpha, distjunc, k, b) ==
    Sqrt(RAdd(RDiv(RSub(RMul(RSq(h_(alpha, distjunc)), RSq(k)), RSq(rho_(alpha, distjunc))),
                   RSub(One, RSq(k))),
              RSq(X0(alpha, distjunc, k, b))))

\* pcR, pcL: the point of the front arc at parameter b
pc(alpha, distjunc, k, b, side) ==
    LET x == X0(alpha, distjunc, k, b)
    IN  <<Zero, RMul(RMul(RInt(side), x), cos(b)),
          RAdd(h_(alpha, distjunc), RMul(x, sin(b)))>>

\* mutant of Assemble: the left leg concatenated whole
AssembleWholeLeftLeg(rightLeg, rightFront, leftFront, leftLeg) ==
    rightLeg \o From1(rightFront) \o From1(flipud(leftFront)) \o flipud(leftLeg)

\* the assembly order of the four segments
Assemble(rightLeg, rightFront, leftFront, leftLeg) ==
    rightLeg \o From1(rightFront) \o From1(flipud(leftFront)) \o From1(flipud(leftLeg))

skeleton(alpha, distjunc, straight_vertices, front_vertices, k) ==
    LET bs   == beta(alpha, front_vertices)
        rs   == rsl(alpha, distjunc, straight_vertices, k)
        rcs  == [j \in 1..front_vertices |-> rc(alpha, distjunc, k, bs[j])]
        cas  == casl(alpha, straight_vertices)
        pcR  == [j \in 1..front_vertices |-> pc(alpha, distjunc, k, bs[j], 1)]
        pcL  == [j \in 1..front_vertices |-> pc(alpha, distjunc, k, bs[j], -1)]
        refl(s) == [j \in 1..Len(s) |-> ASub(Pi, s[j])]
    IN  [p  |-> Assemble(psl(alpha, distjunc, straight_vertices, 1), pcR, pcL,
                         psl(alpha, distjunc, straight_vertices, -1)),
         r  |-> Assemble(rs, rcs, rcs, rs),
         ca |-> cas \o From1(bs) \o refl(From1(flipud(bs)))
                  \o refl(From1(flipud(cas)))]

(***************************************************************************)
(* gcs_mesh(alpha, height, straight_vertices, front_vertices,              *)
(*          circle_vertices, k)                                            *)
(***************************************************************************)
\* mutant of distjunc_: the factor (1 - k) left out
distjunc_NoKappa(alpha, height, k) ==
    RDiv(RMul(height, cos(alpha)), RAdd(One, sin(alpha)))

\* distjunc: height of the skeleton for a leading-edge height
distjunc_(alpha, height, k) ==
    RDiv(RMul(RMul(height, RSub(One, k)), cos(alpha)), RAdd(One, sin(alpha)))

\* mutant of theta: the sweep stops at pi
thetaHalf(circle_vertices) == alinspace(AZero, Pi, circle_vertices)

\* theta: the sweep samples
theta(circle_vertices) == alinspace(AZero, TwoPi, circle_vertices)

\* pspace = numpy.arange(0, (front_vertices + straight_vertices) * 2 - 3)
pspace(straight_vertices, front_vertices) ==
    [i \in 1..((front_vertices + straight_vertices) * 2 - 3) |-> i - 1]

\* numpy.meshgrid(theta, pspace) flattened: one row of theta per entry of pspace
meshgridU(th, ps) ==
    [n \in 1..(Len(ps) * Len(th)) |-> th[((n - 1) % Len(th)) + 1]]

\* mutant of meshgridV: pspace repeated as a whole, as for the first output
meshgridVTiled(th, ps) ==
    [n \in 1..(Len(ps) * Len(th)) |-> ps[((n - 1) % Len(ps)) + 1]]

meshgridV(th, ps) ==
    [n \in 1..(Len(ps) * Len(th)) |-> ps[((n - 1) \div Len(th)) + 1]]

\* r * (cos u, sin u cos ca, sin u sin ca) + p
RingPoint(p, r, ca, u) ==
    <<Plus(Scale(r, cos(u)), Num(p[1])),
      Plus(Scale(r, RMul(sin(u), cos(ca))), Num(p[2])),
      Plus(Scale(r, RMul(sin(u), sin(ca))), Num(p[3]))>>

\* mesh = r[v, np.newaxis] * np.array([...]).T + p[v]
MeshOf(sk, u, v) ==
    [mesh |-> [n \in 1..Len(v) |->
                 RingPoint(At(sk.p, v[n]), At(sk.r, v[n]), At(sk.ca, v[n]), u[n])],
     u |-> u, v |-> v]

gcs_mesh(alpha, height, straight_vertices, front_vertices, circle_vertices, k) ==
    Bind(skeleton(alpha, distjunc_(alpha, height, k), straight_vertices, front_vertices, k),
         LAMBDA sk :
    Bind(theta(circle_vertices), LAMBDA th :
    Bind(pspace(straight_vertices, front_vertices), LAMBDA ps :
    Bind(meshgridU(th, ps), LAMBDA u :
    Bind(meshgridV(th, ps), LAMBDA v : MeshOf(sk, u, v))))))

(***************************************************************************)
(* rotate_mesh(mesh, neang):                                               *)
(*   Rotation.from_euler('zyx', [neang[2], neang[1], neang[0]]).apply(mesh)*)
(***************************************************************************)
\* mutant of Elementary: sine and cosine exchanged
ElementarySinCos(axis, a) ==
    LET c == sin(a)
        s == cos(a)
    IN  IF axis = 1 THEN <<<<One, Zero, Zero>>, <<Zero, c, RNeg(s)>>, <<Zero, s, c>>>>
        ELSE IF axis = 2 THEN <<<<c, Zero, s>>, <<Zero, One, Zero>>, <<RNeg(s), Zero, c>>>>
        ELSE <<<<c, RNeg(s), Zero>>, <<s, c, Zero>>, <<Zero, Zero, One>>>>

\* the elementary rotation by angle a about axis 1 (x), 2 (y) or 3 (z)
Elementary(axis, a) ==
    LET c == cos(a)
        s == sin(a)
    IN  IF axis = 1 THEN <<<<One, Zero, Zero>>, <<Zero, c, RNeg(s)>>, <<Zero, s, c>>>>
        ELSE IF axis = 2 THEN <<<<c, Zero, s>>, <<Zero, One, Zero>>, <<RNeg(s), Zero, c>>>>
        ELSE <<<<c, RNeg(s), Zero>>, <<s, c, Zero>>, <<Zero, Zero, One>>>>

MatMul(A, B) ==
    [i \in 1..3 |-> [j \in 1..3 |->
        RAdd(RAdd(RMul(A[i][1], B[1][j]), RMul(A[i][2], B[2][j])), RMul(A[i][3], B[3][j]))]]

\* mutant of from_euler: the upper-case (intrinsic) sequence, composed the
\* other way round
from_eulerIntrinsic(axes, angles) ==
    MatMul(Elementary(axes[1], angles[1]),
           MatMul(Elementary(axes[2], angles[2]), Elementary(axes[3], angles[3])))

\* scipy Rotation.from_euler with a lower-case (extrinsic) sequence: the
\* rotation about axes[1] acts first, each later one about the fixed axes
from_euler(axes, angles) ==
    MatMul(Elementary(axes[3], angles[3]),
           MatMul(Elementary(axes[2], angles[2]), Elementary(axes[1], angles[1])))

\* Rotation.apply to one vector
ApplyTo(R, pt) ==
    [i \in 1..3 |->
        Plus(Plus(Scale(pt[1], R[i][1]), Scale(pt[2], R[i][2])), Scale(pt[3], R[i][3]))]

\* Rotation.apply to every vector of the mesh
apply(R, mesh) == [n \in 1..Len(mesh) |-> ApplyTo(R, mesh[n])]

\* 'zyx' as axis numbers
zyx == <<3, 2, 1>>

\* mutant of rotate_mesh: neang passed on in its own order
rotate_meshUnswapped(mesh, neang) ==
    Bind(from_euler(zyx, <<neang[1], neang[2], neang[3]>>), LAMBDA R :
    Bind(mesh, LAMBDA m : apply(R, m)))

\* neang = <<lon, lat, tilt>>
rotate_mesh(mesh, neang) ==
    Bind(from_euler(zyx, <<neang[3], neang[2], neang[1]>>), LAMBDA R :
    Bind(mesh, LAMBDA m : apply(R, m)))

gcs_mesh_rotated(alpha, height, straight_vertices, front_vertices, circle_vertices, k, lat, lon, tilt) ==
    Bind(gcs_mesh(alpha, height, straight_vertices, front_vertices, circle_vertices, k),
         LAMBDA g : [mesh |-> rotate_mesh(g.mesh, <<lon, lat, tilt>>), u |-> g.u, v |-> g.v])

(***************************************************************************)
(* gcs_mesh_sunpy(date, alpha, height, straight_vertices, front_vertices,  *)
(*                circle_vertices, k, lat, lon, tilt)                      *)
(* A length is kept in solar radii: multiplying a number by                *)
(* sun.constants.radius gives the quantity of that many solar radii.       *)
(***************************************************************************)
\* mesh.T[[2, 1, 0], :] * sun.constants.radius: rows of axis 2, 1 and 0
RowsTimesRadius(mesh, rows) ==
    [i \in 1..Len(rows) |->
        [value |-> [n \in 1..Len(mesh) |-> mesh[n][rows[i] + 1]], unit |-> "solRad"]]

\* m[1, :] *= -1
NegateRow(m, row) ==
    [m EXCEPT ![row + 1].value = [n \in 1..Len(@) |-> NumNeg(@[n])]]

\* SkyCoord(x, y, z, frame=..., obstime=..., representation_type='cartesian')
SkyCoord(m, frame, obstime) ==
    [x |-> m[1], y |-> m[2], z |-> m[3], frame |-> frame, obstime |-> obstime,
     representation_type |-> "cartesian"]

\* mutant of gcs_mesh_sunpy: the rows taken in the order of the mesh axes
gcs_mesh_sunpyUnordered(date, alpha, height, straight_vertices, front_vertices, circle_vertices, k, lat, lon, tilt) ==
    Bind(gcs_mesh_rotated(alpha, height, straight_vertices, front_vertices,
                          circle_vertices, k, lat, lon, tilt).mesh, LAMBDA mesh :
        SkyCoord(NegateRow(RowsTimesRadius(mesh, <<0, 1, 2>>), 1),
                 "HeliographicStonyhurst", date))

gcs_mesh_sunpy(date, alpha, height, straight_vertices, front_vertices, circle_vertices, k, lat, lon, tilt) ==
    Bind(gcs_mesh_rotated(alpha, height, straight_vertices, front_vertices,
                          circle_vertices, k, lat, lon, tilt).mesh, LAMBDA mesh :
        SkyCoord(NegateRow(RowsTimesRadius(mesh, <<2, 1, 0>>), 1),
                 "HeliographicStonyhurst", date))

(***************************************************************************)
(* apex_radius(alpha, height, k)                                           *)
(***************************************************************************)
\* mutant of apex_radius: divided by 1 - k in place of 1 - k ** 2
apex_radiusLinearK(alpha, height, k) ==
    LET h   == RDiv(RMul(RMul(height, RSub(One, k)), cos(alpha)), RAdd(One, sin(alpha)))
        b   == RDiv(h, cos(alpha))
        rho == RMul(h, tan(alpha))
    IN  RDiv(RMul(k, RAdd(b, rho)), RSub(One, k))

apex_radius(alpha, height, k) ==
    LET h   == RDiv(RMul(RMul(height, RSub(One, k)), cos(alpha)), RAdd(One, sin(alpha)))
        b   == RDiv(h, cos(alpha))
        rho == RMul(h, tan(alpha))
    IN  RDiv(RMul(k, RAdd(b, rho)), RSub(One, RSq(k)))

(***************************************************************************)
(* The callers' inputs                                                     *)
(***************************************************************************)
MaxStraight == 3

MaxFront == 4

MaxCircle == 3

MaxSize == 2

MaxRot == 2

G == Angle(0, 1)

\* half angles: 0, 16.3, 36.9, 53.1, 69.4 and 90 degrees
Alphas == {Angle(0, 0), Angle(1, -2), Angle(0, 1), Angle(1, -1), Angle(2, -3), Angle(1, 0)}

Kappas == {Zero, Rat(3, 5), Rat(4, 5), One}

\* junction distances for skeleton, apex heights for the other functions
Dists == {RInt(i) : i \in 0..MaxSize}

Heights == {RInt(i) : i \in 1..MaxSize}

\* point arrays a caller may hand to rotate_mesh
Pt(x, y, z) == <<Num(RInt(x)), Num(RInt(y)), Num(RInt(z))>>

Meshes == {<<Pt(1, 0, 0)>>, <<Pt(0, 1, 0), Pt(0, 0, 1)>>, <<Pt(1, 2, 3), Pt(-2, 0, 1)>>}

RotAngles == {AZero, G}

Neangs == {<<lon, lat, tilt>> : lon \in RotAngles, lat \in RotAngles, tilt \in RotAngles}

\* orientations for gcs_mesh_rotated: none, each angle alone, all three
MeshNeangs ==
    {n \in Neangs : Cardinality({i \in 1..3 : n[i] # AZero}) \in {0, 1, 3}}

\* observation dates, apex heights and orientations for gcs_mesh_sunpy
Dates == {1, 2}

SunpyHeights == {One}

SunpyNeangs == {<<a, a, a>> : a \in RotAngles}

\* the arguments of apex_radius: those of the other functions and the
\* documented example alpha = radians(25), height = 8.79, kappa = 0.26
ApexAlphas == Alphas \cup {Radians25}

ApexHeights == Heights \cup {Rat(879, 100)}

ApexKappas == Kappas \cup {Rat(13, 50)}

\* the vertex counts for which the samples of linspace are angles of the model
FrontCounts(alpha) == {f \in 1..MaxFront : ExactSpace(ANeg(alpha), HalfPi, f)}

CircleCounts == {c \in 1..MaxCircle : ExactSpace(AZero, TwoPi, c)}

\* the domain the documentation gives: alpha in (0, pi/2), k in (0, 1)
ValidAlpha(alpha) == RLess(Zero, sin(alpha)) /\ RLess(Zero, cos(alpha))

ValidKappa(k) == RLess(Zero, k) /\ RLess(k, One)

(***************************************************************************)
(* State: the call of a function of gcs.py and what it returned.  The      *)
(* functions are pure, so a behaviour is one call; only rotate_mesh is     *)
(* called again, on the mesh it returned: orig is the mesh the first call  *)
(* was given and hist the angles of the calls so far.                      *)
(***************************************************************************)
VARIABLES call, ret, orig, hist

\* The window of gcs/gui.py: the index of the display-mode box, the mode of
\* the last plot_mesh call, the mesh plots it keeps, the artists on the axes
\* of each image, the values of the six sliders, the values shown in the
\* radius label, the number of loaded images, the signal that triggered the
\* last plot_mesh call and the exception it raised.
VARIABLES cb_mode, current_draw_mode, mesh_plots, axes, sliders, l_radius, images,
          trigger, raised

\* A SliderAndTextbox of gcs/utils/widgets.py: the constructor arguments, the
\* slider position, the value of the number box, the handlers on the call
\* stack and the handlers run since the last change by the user.
VARIABLES config, slider, numbox, stack, chain

\* A function decorated with debounce (utils/debounce.py): the dictionary
\* debounced.t, the timers created so far, the clock, the times of the
\* invocations and of the executions of the wrapped function.
VARIABLES wait, debounced_t, timers, now, invoked, executed

gcsVars == <<call, ret, orig, hist>>

guiVars == <<cb_mode, current_draw_mode, mesh_plots, axes, sliders, l_radius, images,
             trigger, raised>>

widgetVars == <<config, slider, numbox, stack, chain>>

debounceVars == <<wait, debounced_t, timers, now, invoked, executed>>

vars == <<gcsVars, guiVars, widgetVars, debounceVars>>

NoArgs == [alpha |-> AZero, size |-> Zero, s |-> 0, f |-> 0, c |-> 0, k |-> Zero,
           neang |-> <<AZero, AZero, AZero>>, date |-> 0]

Call(fn, a) == [fn |-> fn] @@ a

\* a normal return: no function of gcs.py has a raise statement or a check
\* of its arguments
Return(fields) ==
    fields @@ [raised |-> "none", p |-> <<>>, r |-> <<>>, ca |-> <<>>,
               mesh |-> <<>>, u |-> <<>>, v |-> <<>>, val |-> Zero,
               coord |-> <<>>]

\* no call of gcs.py made yet
NoCall ==
    /\ call = Call("none", NoArgs)
    /\ ret = Return([raised |-> "none"])
    /\ orig = <<>>
    /\ hist = <<>>

\* no window built
NoGui ==
    /\ cb_mode = 0 /\ current_draw_mode = "None" /\ mesh_plots = <<>> /\ axes = <<>>
    /\ sliders = <<>> /\ l_radius = <<>> /\ images = 0 /\ trigger = "none"
    /\ raised = "none"

\* no widget built
NoWidget == config = <<>> /\ slider = 0 /\ numbox = Zero /\ stack = <<>> /\ chain = <<>>

\* no function decorated
NoDebounce ==
    /\ wait = Zero /\ debounced_t = <<>> /\ timers = <<>> /\ now = 0
    /\ invoked = <<>> /\ executed = <<>>

Init == NoCall /\ NoGui /\ NoWidget /\ NoDebounce

Skeleton ==
    \E alpha \in Alphas, d \in Dists, s \in 1..MaxStraight, k \in Kappas :
      \E f \in FrontCounts(alpha) :
        /\ call.fn = "none"
        /\ call' = Call("skeleton", [NoArgs EXCEPT !.alpha = alpha, !.size = d,
                                                   !.s = s, !.f = f, !.k = k])
        /\ ret' = Return(skeleton(alpha, d, s, f, k))
        /\ orig' = <<>>
        /\ hist' = <<>>
        /\ UNCHANGED <<guiVars, widgetVars, debounceVars>>

GcsMesh ==
    \E alpha \in Alphas, height \in Heights, s \in 1..MaxStraight, k \in Kappas :
      \E f \in FrontCounts(alpha), c \in CircleCounts :
        /\ call.fn = "none"
        /\ call' = Call("gcs_mesh", [NoArgs EXCEPT !.alpha = alpha, !.size = height,
                                                   !.s = s, !.f = f, !.c = c, !.k = k])
        /\ ret' = Return(gcs_mesh(alpha, height, s, f, c, k))
        /\ orig' = <<>>
        /\ hist' = <<>>
        /\ UNCHANGED <<guiVars, widgetVars, debounceVars>>

\* rotate_mesh on a caller's mesh
RotateMesh ==
    \E mesh \in Meshes, neang \in Neangs :
        /\ call.fn = "none"
        /\ call' = Call("rotate_mesh", [NoArgs EXCEPT !.neang = neang])
        /\ ret' = Return([mesh |-> rotate_mesh(mesh, neang)])
        /\ orig' = mesh
        /\ hist' = <<neang>>
        /\ UNCHANGED <<guiVars, widgetVars, debounceVars>>

\* rotate_mesh on the mesh the last rotate_mesh call returned
RotateAgain ==
    \E neang \in Neangs :
        /\ call.fn = "rotate_mesh"
        /\ Len(hist) < MaxRot
        /\ call' = [call EXCEPT !.neang = neang]
        /\ ret' = Return([mesh |-> rotate_mesh(ret.mesh, neang)])
        /\ hist' = Append(hist, neang)
        /\ UNCHANGED <<orig, guiVars, widgetVars, debounceVars>>

GcsMeshRotated ==
    \E alpha \in Alphas, height \in Heights, s \in 1..MaxStraight, k \in Kappas :
      \E f \in FrontCounts(alpha), c \in CircleCounts, neang \in MeshNeangs :
        /\ call.fn = "none"
        /\ call' = Call("gcs_mesh_rotated",
                        [NoArgs EXCEPT !.alpha = alpha, !.size = height, !.s = s,
                                       !.f = f, !.c = c, !.k = k, !.neang = neang])
        /\ ret' = Return(gcs_mesh_rotated(alpha, height, s, f, c, k,
                                          neang[2], neang[1], neang[3]))
        /\ orig' = <<>>
        /\ hist' = <<>>
        /\ UNCHANGED <<guiVars, widgetVars, debounceVars>>

GcsMeshSunpy ==
    \E alpha \in Alphas, height \in SunpyHeights, s \in 1..MaxStraight, k \in Kappas :
      \E f \in FrontCounts(alpha), c \in CircleCounts, neang \in SunpyNeangs, date \in Dates :
        /\ call.fn = "none"
        /\ call' = Call("gcs_mesh_sunpy",
                        [NoArgs EXCEPT !.alpha = alpha, !.size = height, !.s = s,
                                       !.f = f, !.c = c, !.k = k, !.neang = neang,
                                       !.date = date])
        /\ ret' = Return([coord |-> gcs_mesh_sunpy(date, alpha, height, s, f, c, k,
                                                   neang[2], neang[1], neang[3])])
        /\ orig' = <<>>
        /\ hist' = <<>>
        /\ UNCHANGED <<guiVars, widgetVars, debounceVars>>

ApexRadius ==
    \E alpha \in ApexAlphas, height \in ApexHeights, k \in ApexKappas :
        /\ call.fn = "none"
        /\ call' = Call("apex_radius", [NoArgs EXCEPT !.alpha = alpha, !.size = height,
                                                      !.k = k])
        /\ ret' = Return([val |-> apex_radius(alpha, height, k)])
        /\ orig' = <<>>
        /\ hist' = <<>>
        /\ UNCHANGED <<guiVars, widgetVars, debounceVars>>

Next ==
    Skeleton \/ GcsMesh \/ RotateMesh \/ RotateAgain \/ GcsMeshRotated \/ GcsMeshSunpy
      \/ ApexRadius

Spec == Init /\ [][Next]_vars

(***************************************************************************)
(* Claims about skeleton                                                   *)
(***************************************************************************)
IsSkeleton == call.fn = "skeleton"

\* the skeleton length 2*s + 2*f - 3 of a call
SkelLen(c) == 2 * c.s + 2 * c.f - 3

\* alpha in (0, pi/2), k in (0, 1), positive junction distance
ValidShape(c) == ValidAlpha(c.alpha) /\ ValidKappa(c.k) /\ RLess(Zero, c.size)

\* C1: for all positive straight_vertices s and front_vertices f, the position,
\* radius and cross-section-angle sequences that skeleton returns all have
\* exactly 2*s + 2*f - 3 entries.
C1_SkeletonLengths ==
    IsSkeleton =>
        /\ Len(ret.p) = SkelLen(call)
        /\ Len(ret.r) = SkelLen(call)
        /\ Len(ret.ca) = SkelLen(call)

C1_Witness ==
    /\ IsSkeleton /\ call.s = 3 /\ call.f = 4
    /\ Len(ret.p) = 11 /\ Len(ret.r) = 11 /\ Len(ret.ca) = 11

\* C2: index i of the skeleton holds the right-leg sample t_i for 0 <= i <= s-1,
\* the right-front sample beta_(i-s+1) for s <= i <= s+f-2, the left-front
\* sample beta_(s+2f-3-i) for s+f-1 <= i <= s+2f-3 and the left-leg sample
\* t_(2s+2f-4-i) for s+2f-2 <= i <= 2s+2f-4, in position, radius and angle
\* (the left samples carry the mirrored point and the reflected angle).
C2_IndexMap ==
    IsSkeleton =>
        LET s  == call.s
            f  == call.f
            a  == call.alpha
            d  == call.size
            k  == call.k
            t  == linspace(Zero, d, s)
            b  == beta(a, f)
            legP(j, side) == <<Zero, RMul(t[j + 1], RMul(RInt(side), sin(a))),
                               RMul(t[j + 1], cos(a))>>
            legR(j) == Scale(Sqrt(RSq(t[j + 1])), tan(arcsin(k)))
        IN  \A i \in 0..(SkelLen(call) - 1) :
              IF i <= s - 1
              THEN /\ At(ret.p, i) = legP(i, 1)
                   /\ At(ret.r, i) = legR(i)
                   /\ At(ret.ca, i) = ANeg(a)
              ELSE IF i <= s + f - 2
              THEN /\ At(ret.p, i) = pc(a, d, k, At(b, i - s + 1), 1)
                   /\ At(ret.r, i) = rc(a, d, k, At(b, i - s + 1))
                   /\ At(ret.ca, i) = At(b, i - s + 1)
              ELSE IF i <= s + 2 * f - 3
              THEN /\ At(ret.p, i) = pc(a, d, k, At(b, s + 2 * f - 3 - i), -1)
                   /\ At(ret.r, i) = rc(a, d, k, At(b, s + 2 * f - 3 - i))
                   /\ At(ret.ca, i) = ASub(Pi, At(b, s + 2 * f - 3 - i))
              ELSE /\ At(ret.p, i) = legP(2 * s + 2 * f - 4 - i, -1)
                   /\ At(ret.r, i) = legR(2 * s + 2 * f - 4 - i)
                   /\ At(ret.ca, i) = AAdd(Pi, a)

\* a call in which every one of the four segments contributes samples, with
\* an interior sample on the legs and on the front
C2_Witness ==
    /\ IsSkeleton /\ ValidShape(call) /\ call.s = 3 /\ call.f = 4
    /\ At(ret.ca, 4) = Angle(0, 1) /\ At(ret.ca, 6) = Angle(2, -1)
    /\ At(ret.p, 9)[2] = RNeg(At(ret.p, 1)[2])

\* the mirror of sample i is sample N-1-i: lateral coordinate negated, same
\* radius, angle pi - ca
Mirrored(i) ==
    LET j == SkelLen(call) - 1 - i
    IN  /\ At(ret.p, j) = <<At(ret.p, i)[1], RNeg(At(ret.p, i)[2]), At(ret.p, i)[3]>>
        /\ At(ret.r, j) = At(ret.r, i)
        /\ At(ret.ca, j) = ASub(Pi, At(ret.ca, i))

Count(seq, x) == Cardinality({i \in 1..Len(seq) : seq[i] = x})

\* C4: for valid parameters with s >= 2 and f >= 2 no skeleton point is
\* duplicated at a seam: the right junction, the apex and the left junction
\* each appear exactly once, and no two consecutive positions are equal.
C4_NoSeamDuplicate ==
    (IsSkeleton /\ ValidShape(call) /\ call.s >= 2 /\ call.f >= 2) =>
        /\ \A i \in 0..(SkelLen(call) - 2) : At(ret.p, i) # At(ret.p, i + 1)
        /\ Count(ret.p, At(ret.p, call.s - 1)) = 1
        /\ Count(ret.p, At(ret.p, call.s + call.f - 2)) = 1
        /\ Count(ret.p, At(ret.p, SkelLen(call) - call.s)) = 1

\* a valid call whose seams are the junction points and the apex
C4_Witness ==
    /\ IsSkeleton /\ ValidShape(call) /\ call.s = 2 /\ call.f = 2
    /\ At(ret.p, 1) = <<Zero, RMul(call.size, sin(call.alpha)),
                        RMul(call.size, cos(call.alpha))>>
    /\ At(ret.ca, 2) = HalfPi
    /\ At(ret.p, 3)[2] = RNeg(At(ret.p, 1)[2])

(***************************************************************************)
(* Claims about gcs_mesh                                                   *)
(***************************************************************************)
IsMesh == call.fn = "gcs_mesh"

\* the skeleton gcs_mesh builds for a call
SkeletonOf(c) == skeleton(c.alpha, distjunc_(c.alpha, c.size, c.k), c.s, c.f, c.k)

\* C5: for positive vertex counts gcs_mesh returns circle_vertices * (2s+2f-3)
\* points and u, v of that length; the point at flat index n is the ring
\* point of skeleton sample v[n] = n div circle_vertices at the sweep sample
\* u[n] = theta[n mod circle_vertices]; every v is a skeleton index and every
\* skeleton sample receives exactly circle_vertices points.
C5_MeshGrid ==
    IsMesh =>
        Bind(SkeletonOf(call), LAMBDA sk :
            LET c  == call.c
                N  == SkelLen(call)
                th == alinspace(AZero, TwoPi, c)
            IN  /\ Len(ret.mesh) = c * N /\ Len(ret.u) = c * N /\ Len(ret.v) = c * N
                /\ \A n \in 0..(c * N - 1) :
                     /\ At(ret.v, n) = n \div c
                     /\ At(ret.v, n) \in 0..(N - 1)
                     /\ At(ret.u, n) = At(th, n % c)
                     /\ At(ret.mesh, n) =
                          RingPoint(At(sk.p, n \div c), At(sk.r, n \div c),
                                    At(sk.ca, n \div c), At(th, n % c))
                /\ \A j \in 0..(N - 1) :
                     Cardinality({n \in 0..(c * N - 1) : At(ret.v, n) = j}) = c)

\* a 3 x 5 grid of a valid shape: its last ring is skeleton sample 4
C5_Witness ==
    /\ IsMesh /\ ValidShape(call) /\ call.s = 2 /\ call.f = 2 /\ call.c = 3
    /\ Len(ret.mesh) = 15
    /\ At(ret.v, 14) = 4 /\ At(ret.u, 13) = Pi
    /\ At(ret.mesh, 4) # At(ret.mesh, 3)

ZeroNeang == <<AZero, AZero, AZero>>

\* a call that rotated a known mesh once: a first rotate_mesh call, or
\* gcs_mesh_rotated
RotatedOnce ==
    \/ call.fn = "rotate_mesh" /\ Len(hist) = 1
    \/ call.fn = "gcs_mesh_rotated"

\* the point pt turned by angle a about axis 0 (depth), 1 (lateral) or
\* 2 (height), counter-clockwise seen from the tip of the axis
Turned(axis, c, s, pt) ==
    LET x == pt[1]
        y == pt[2]
        z == pt[3]
    IN  IF axis = 0 THEN <<x, Plus(Scale(y, c), Scale(z, RNeg(s))), Plus(Scale(y, s), Scale(z, c))>>
        ELSE IF axis = 1
        THEN <<Plus(Scale(x, c), Scale(z, s)), y, Plus(Scale(x, RNeg(s)), Scale(z, c))>>
        ELSE <<Plus(Scale(x, c), Scale(y, RNeg(s))), Plus(Scale(x, s), Scale(y, c)), z>>

About(axis, a, pt) == Turned(axis, cos(a), sin(a), pt)

\* every point of the result is the point of the input at the same index,
\* turned by a1 about axis x1, then a2 about x2, then a3 about x3
TurnedInOrder(x1, a1, x2, a2, x3, a3) ==
    Bind(IF call.fn = "gcs_mesh_rotated"
         THEN gcs_mesh(call.alpha, call.size, call.s, call.f, call.c, call.k).mesh
         ELSE orig, LAMBDA in :
    Bind(<<cos(a1), sin(a1), cos(a2), sin(a2), cos(a3), sin(a3)>>, LAMBDA t :
        /\ Len(ret.mesh) = Len(in)
        /\ \A n \in 1..Len(in) :
             ret.mesh[n] = Turned(x3, t[5], t[6],
                                  Turned(x2, t[3], t[4], Turned(x1, t[1], t[2], in[n])))))

\* C7 as stated: rotate_mesh(mesh, [lon, lat, tilt]) turns every point by tilt
\* about the depth axis (axis 0), then by lat about the lateral axis (axis 1),
\* then by lon about the height axis (axis 2).
C7_TiltAboutDepth ==
    RotatedOnce => TurnedInOrder(0, call.neang[3], 1, call.neang[2], 2, call.neang[1])

\* C7 amended: rotate_mesh(mesh, [lon, lat, tilt]) turns every point by tilt
\* about the height axis (axis 2), then by lat about the lateral axis
\* (axis 1), then by lon about the depth axis (axis 0).
C7_TiltAboutHeight ==
    RotatedOnce => TurnedInOrder(2, call.neang[3], 1, call.neang[2], 0, call.neang[1])

\* a rotation with all three angles non-zero that moves the mesh
C7_Witness ==
    /\ call.fn = "rotate_mesh" /\ hist = <<<<G, G, G>>>>
    /\ orig = <<Pt(1, 2, 3), Pt(-2, 0, 1)>>
    /\ ret.mesh # orig
    /\ ret.mesh[1] = About(0, G, About(1, G, About(2, G, orig[1])))

\* C8 as stated: rotating by (lon1, 0, 0) and then rotating the result by
\* (0, lat1, 0) gives the same mesh as one rotation by (lon1, lat1, 0).
C8_LonThenLat ==
    (call.fn = "rotate_mesh" /\ Len(hist) = 2
       /\ hist[1][2] = AZero /\ hist[1][3] = AZero
       /\ hist[2][1] = AZero /\ hist[2][3] = AZero) =>
        ret.mesh = rotate_mesh(orig, <<hist[1][1], hist[2][2], AZero>>)

\* C8 amended: rotating by (0, lat1, 0) and then rotating the result by
\* (lon1, 0, 0) gives the same mesh as one rotation by (lon1, lat1, 0).
C8_LatThenLon ==
    (call.fn = "rotate_mesh" /\ Len(hist) = 2
       /\ hist[1][1] = AZero /\ hist[1][3] = AZero
       /\ hist[2][2] = AZero /\ hist[2][3] = AZero) =>
        ret.mesh = rotate_mesh(orig, <<hist[2][1], hist[1][2], AZero>>)

\* two non-zero rotations that do not commute on the mesh
C8_Witness ==
    /\ call.fn = "rotate_mesh" /\ hist = <<<<AZero, G, AZero>>, <<G, AZero, AZero>>>>
    /\ ret.mesh = rotate_mesh(orig, <<G, G, AZero>>)
    /\ ret.mesh # rotate_mesh(rotate_mesh(orig, <<G, AZero, AZero>>), <<AZero, G, AZero>>)

\* C9: rotate_mesh(mesh, [0, 0, 0]) returns its input point for point; for any
\* angles the result has as many points as the input, the point at index n
\* being the rotated input point n; gcs_mesh_rotated returns the u and v of
\* gcs_mesh unchanged.
C9_IdentityAndTopology ==
    /\ (call.fn = "rotate_mesh" /\ Len(hist) = 1) =>
          /\ Len(ret.mesh) = Len(orig)
          /\ hist[1] = ZeroNeang => ret.mesh = orig
          /\ \A n \in 1..Len(orig) : ret.mesh[n] = rotate_mesh(<<orig[n]>>, hist[1])[1]
    /\ (call.fn = "rotate_mesh" /\ Len(hist) = 2 /\ hist[2] = ZeroNeang) =>
          ret.mesh = rotate_mesh(orig, hist[1])
    /\ call.fn = "gcs_mesh_rotated" =>
          Bind(gcs_mesh(call.alpha, call.size, call.s, call.f, call.c, call.k), LAMBDA g :
          Bind(from_euler(zyx, <<call.neang[3], call.neang[2], call.neang[1]>>), LAMBDA R :
              /\ ret.u = g.u
              /\ ret.v = g.v
              /\ Len(ret.mesh) = Len(g.mesh)
              /\ call.neang = ZeroNeang => ret.mesh = g.mesh
              /\ \A n \in 1..Len(g.mesh) : ret.mesh[n] = ApplyTo(R, g.mesh[n])))

\* gcs_mesh_rotated with non-zero angles on a 3 x 5 grid of a valid shape
C9_Witness ==
    /\ call.fn = "gcs_mesh_rotated" /\ ValidShape(call)
    /\ call.s = 2 /\ call.f = 2 /\ call.c = 3 /\ call.neang = <<G, G, G>>
    /\ Len(ret.mesh) = 15 /\ Len(ret.u) = 15 /\ At(ret.v, 14) = 4
    /\ At(ret.u, 13) = Pi

(***************************************************************************)
(* Claims about the rejection of degenerate inputs                         *)
(***************************************************************************)
\* C10: calling skeleton, gcs_mesh or apex_radius with kappa = 1.0 or with
\* kappa = 0.0 raises a DomainError and returns no result.
C10_KappaRejected ==
    (call.fn \in {"skeleton", "gcs_mesh", "apex_radius"} /\ call.k \in {Zero, One}) =>
        ret.raised = "DomainError"

\* C11: calling skeleton, gcs_mesh or apex_radius with alpha = 0 or with
\* alpha = pi/2 raises a DomainError and returns no result.
C11_AlphaRejected ==
    (call.fn \in {"skeleton", "gcs_mesh", "apex_radius"} /\ call.alpha \in {AZero, HalfPi}) =>
        ret.raised = "DomainError"

(***************************************************************************)
(* Claims about the apex and the ends of the skeleton                      *)
(***************************************************************************)
\* the index of the last sample of the right front arc
ApexIndex(c) == c.s + c.f - 2

\* C12: for every valid (alpha, height, kappa) and f >= 2 the skeleton built
\* by gcs_mesh has its beta = pi/2 sample at index s + f - 2, the middle of
\* the sequence, and the cross-section radius of that sample equals
\* apex_radius(alpha, height, kappa).
C12_ApexConsistency ==
    (IsMesh /\ ValidShape(call) /\ call.f >= 2) =>
        Bind(SkeletonOf(call), LAMBDA sk :
            LET i    == ApexIndex(call)
                apex == Num(apex_radius(call.alpha, call.size, call.k))
            IN  /\ 2 * i = SkelLen(call) - 1
                /\ At(sk.ca, i) = HalfPi
                /\ \A j \in 0..(SkelLen(call) - 1) : At(sk.ca, j) = HalfPi => j = i
                /\ NumFinite(apex)
                /\ At(sk.r, i) = apex
                /\ call.c >= 2 => At(ret.mesh, i * call.c)[1] = apex)

\* a mesh whose apex ring has radius 3/4: alpha = G (36.9 degrees),
\* height 2, kappa 3/5
C12_Witness ==
    /\ IsMesh /\ call.alpha = G /\ call.size = RInt(2) /\ call.k = Rat(3, 5)
    /\ call.s = 2 /\ call.f = 2 /\ call.c = 3
    /\ apex_radius(call.alpha, call.size, call.k) = Rat(3, 4)
    /\ At(ret.mesh, ApexIndex(call) * 3) = <<Num(Rat(3, 4)), Num(Zero), Num(Rat(5, 4))>>

\* the first and the last sample of the returned skeleton are the origin,
\* with radius 0
EndsAtOrigin ==
    LET origin == <<Zero, Zero, Zero>>
        N      == Len(ret.p)
    IN  /\ ret.p[1] = origin /\ ret.r[1] = Num(Zero)
        /\ ret.p[N] = origin /\ ret.r[N] = Num(Zero)

\* C13 as stated: for every valid parameter set with s >= 1 the first and the
\* last skeleton point are both exactly the origin (0, 0, 0), with radius 0.
C13_EndsAtOriginAllCounts ==
    (IsSkeleton /\ ValidShape(call) /\ call.s >= 1) => EndsAtOrigin

\* C13 amended: for every valid parameter set with s >= 2 the first and the
\* last skeleton point are both exactly the origin (0, 0, 0), with radius 0.
C13_EndsAtOrigin ==
    (IsSkeleton /\ ValidShape(call) /\ call.s >= 2) => EndsAtOrigin

\* a skeleton with two leg samples: it starts and ends at the origin and
\* leaves it in between
C13_Witness ==
    /\ IsSkeleton /\ ValidShape(call) /\ call.s = 2 /\ call.f = 2
    /\ Len(ret.p) = 5
    /\ ret.p[1] = <<Zero, Zero, Zero>> /\ ret.p[5] = <<Zero, Zero, Zero>>
    /\ ret.p[2] # <<Zero, Zero, Zero>> /\ ret.p[4] # <<Zero, Zero, Zero>>
    /\ ret.r[2] # Num(Zero)

(***************************************************************************)
(* Claims about gcs_mesh_sunpy.  The Cartesian components of a             *)
(* Heliographic Stonyhurst coordinate: x along the Sun-observer line       *)
(* projected on the solar equator, z towards solar north, y completing the *)
(* right-handed set.                                                       *)
(***************************************************************************)
IsSunpy == call.fn = "gcs_mesh_sunpy"

\* the rotated mesh gcs_mesh_sunpy embeds for a call
RotatedOf(c) ==
    gcs_mesh_rotated(c.alpha, c.size, c.s, c.f, c.c, c.k,
                     c.neang[2], c.neang[1], c.neang[3]).mesh

\* the coordinate has one point per mesh point, in the order of the mesh
SamePoints(mesh) ==
    /\ Len(ret.coord.x.value) = Len(mesh)
    /\ Len(ret.coord.y.value) = Len(mesh)
    /\ Len(ret.coord.z.value) = Len(mesh)

IsExample ==
    /\ call.fn = "apex_radius"
    /\ call.alpha = Radians25 /\ call.size = Rat(879, 100) /\ call.k = Rat(13, 50)

\* x rounds to c at two decimals
RoundsTo(x, c) ==
    /\ IsFinite(x)
    /\ ~RLess(x, RSub(c, Rat(5, 1000)))
    /\ RLess(x, RAdd(c, Rat(5, 1000)))

\* C15 as stated: for alpha = radians(25), height = 8.79 and kappa = 0.26
\* apex_radius returns approximately 1.02.
C15_ExampleIs102 == IsExample => RoundsTo(ret.val, Rat(102, 100))

\* C15 amended: for alpha = radians(25), height = 8.79 and kappa = 0.26
\* apex_radius returns approximately 1.81 (kappa * height / (1 + kappa),
\* whatever alpha is).
C15_ExampleIs181 ==
    /\ IsExample => RoundsTo(ret.val, Rat(181, 100))
    /\ (call.fn = "apex_radius" /\ ValidAlpha(call.alpha) /\ ValidKappa(call.k)) =>
          ret.val = RDiv(RMul(call.k, call.size), RAdd(One, call.k))

\* the example call has returned 3809/2100 = 1.8138...
C15_Witness == IsExample /\ ret.val = Rat(3809, 2100)

(***************************************************************************)
(* The window GCSGui of gcs/gui.py.  A mesh plot is an artist on the axes  *)
(* of one image; _mesh_plots holds references to artists.  The mesh that   *)
(* gcs_mesh_sunpy returns is kept as the slider values it was computed     *)
(* from.  A slot that raises leaves the window as it is at the raise.      *)
(***************************************************************************)
MaxImages == 2

MaxSlider == 1

draw_modes == <<"off", "point cloud", "grid">>

SliderNames == {"half_angle", "height", "kappa", "lat", "lon", "tilt"}

SliderValues == 0..MaxSlider

\* the dictionaries of plot_mesh: style and params by draw mode
Style == ("grid" :> "-") @@ ("point cloud" :> ".")

Params == ("grid" :> [lw |-> Rat(1, 2)]) @@ ("point cloud" :> [ms |-> RInt(2)])

\* the mesh to plot: in grid mode the mesh and its transposed copy
MeshData(sl, draw_mode) == [args |-> sl, parts |-> IF draw_mode = "grid" THEN 2 ELSE 1]

\* the text of the radius label
RadiusText(sl) == <<sl["half_angle"], sl["height"], sl["kappa"]>>

\* a fresh artist identity on one axes
NewId(artists) ==
    IF artists = <<>> THEN 1
    ELSE 1 + CHOOSE m \in {artists[k].id : k \in 1..Len(artists)} :
                 \A k \in 1..Len(artists) : artists[k].id <= m

\* plot.remove() for every plot of the list
RemoveAll(ax, plots) ==
    [i \in 1..Len(ax) |->
        SelectSeq(ax[i], LAMBDA a :
            ~\E k \in 1..Len(plots) : plots[k].ax = i - 1 /\ plots[k].id = a.id)]

\* p.set_xdata, p.set_ydata on the artist a plot refers to
SetData(ax, plot, mesh) ==
    [ax EXCEPT ![plot.ax + 1] =
        [k \in 1..Len(@) |-> IF @[k].id = plot.id THEN [@[k] EXCEPT !.data = mesh] ELSE @[k]]]

\* the loop over the images, from image i on
RECURSIVE PlotLoop(_, _, _, _, _)
PlotLoop(i, plots, ax, draw_mode, mesh) ==
    IF i = Len(ax) THEN [mesh_plots |-> plots, axes |-> ax, raised |-> "none"]
    ELSE IF Len(plots) <= i
    THEN IF draw_mode \notin DOMAIN Style
         THEN [mesh_plots |-> plots, axes |-> ax, raised |-> "KeyError"]
         ELSE LET p == [id |-> NewId(ax[i + 1]), style |-> Style[draw_mode],
                        params |-> Params[draw_mode], color |-> "blue", data |-> mesh]
              IN  PlotLoop(i + 1, Append(plots, [ax |-> i, id |-> p.id]),
                           [ax EXCEPT ![i + 1] = Append(@, p)], draw_mode, mesh)
    ELSE PlotLoop(i + 1, plots, SetData(ax, plots[i + 1], mesh), draw_mode, mesh)

\* mutant of plot_mesh: the plots of the previous mode are kept on a mode
\* switch
plot_meshKeepPlots(current, plots, ax, sl, index) ==
    LET draw_mode == At(draw_modes, index)
        switch    == draw_mode # current
    IN  [current_draw_mode |-> draw_mode, l_radius |-> RadiusText(sl)] @@
        IF switch /\ draw_mode = "off"
        THEN [mesh_plots |-> plots, axes |-> ax, raised |-> "none"]
        ELSE PlotLoop(0, plots, ax, draw_mode, MeshData(sl, draw_mode))

\* plot_mesh in a window with the given mode, plots and axes, the sliders at
\* sl and the display-mode box at index
plot_mesh(current, plots, ax, sl, index) ==
    LET draw_mode == At(draw_modes, index)
        switch    == draw_mode # current
        plots0    == IF switch THEN <<>> ELSE plots
        ax0       == IF switch THEN RemoveAll(ax, plots) ELSE ax
    IN  [current_draw_mode |-> draw_mode, l_radius |-> RadiusText(sl)] @@
        IF switch /\ draw_mode = "off"
        THEN [mesh_plots |-> plots0, axes |-> ax0, raised |-> "none"]
        ELSE PlotLoop(0, plots0, ax0, draw_mode, MeshData(sl, draw_mode))

\* the window takes the outcome of a plot_mesh call
Plotted(r) ==
    /\ current_draw_mode' = r.current_draw_mode
    /\ mesh_plots' = r.mesh_plots
    /\ axes' = r.axes
    /\ l_radius' = r.l_radius
    /\ raised' = r.raised

\* __init__: create_widgets sets the sliders from the stored parameters and
\* the display-mode box to index 2; make_plot loads one image per spacecraft
\* and calls plot_mesh
GuiInit ==
    /\ NoCall /\ NoWidget /\ NoDebounce
    /\ images \in 1..MaxImages
    /\ sliders \in [SliderNames -> SliderValues]
    /\ cb_mode = 2
    /\ trigger = "make_plot"
    /\ LET r == plot_mesh("None", <<>>, [i \in 1..images |-> <<>>], sliders, cb_mode)
       IN  /\ current_draw_mode = r.current_draw_mode
           /\ mesh_plots = r.mesh_plots
           /\ axes = r.axes
           /\ l_radius = r.l_radius
           /\ raised = r.raised

\* a slider or its number box gets a new value: valueChanged calls plot_mesh
SliderValueChanged ==
    \E name \in SliderNames, value \in SliderValues :
        /\ value # sliders[name]
        /\ sliders' = [sliders EXCEPT ![name] = value]
        /\ trigger' = "valueChanged"
        /\ Plotted(plot_mesh(current_draw_mode, mesh_plots, axes, sliders', cb_mode))
        /\ UNCHANGED <<cb_mode, images, gcsVars, widgetVars, debounceVars>>

\* another display mode is selected: currentIndexChanged calls plot_mesh
CurrentIndexChanged ==
    \E index \in 0..(Len(draw_modes) - 1) :
        /\ index # cb_mode
        /\ cb_mode' = index
        /\ trigger' = "currentIndexChanged"
        /\ Plotted(plot_mesh(current_draw_mode, mesh_plots, axes, sliders, index))
        /\ UNCHANGED <<sliders, images, gcsVars, widgetVars, debounceVars>>

GuiNext == SliderValueChanged \/ CurrentIndexChanged

SpecGui == GuiInit /\ [][GuiNext]_vars

(***************************************************************************)
(* Claims about plot_mesh                                                  *)
(***************************************************************************)
\* the selected display mode
Mode == At(draw_modes, cb_mode)

\* the artists of mesh plots on the axes of image i (0-based)
Drawn(i) == {axes[i + 1][k] : k \in 1..Len(axes[i + 1])}

\* C16: once the display mode is 'off', a further plot_mesh call triggered by
\* a slider change (mode still 'off') completes without raising an error,
\* draws no mesh and leaves the list of mesh plots empty.
C16_OffSliderChangeQuiet ==
    (trigger = "valueChanged" /\ Mode = "off") =>
        /\ raised = "none"
        /\ mesh_plots = <<>>
        /\ \A i \in 0..(images - 1) : Drawn(i) = {}

\* C17: whenever plot_mesh has returned normally: in mode 'off' there are no
\* mesh plots; otherwise there is exactly one mesh plot per loaded image,
\* each created with the style of the current mode ('.' for point cloud,
\* '-' for grid), and no plot of a previous mode is left on any axes.
C17_OnePlotPerImage ==
    raised = "none" =>
        /\ current_draw_mode = Mode
        /\ Mode = "off" =>
              /\ mesh_plots = <<>>
              /\ \A i \in 0..(images - 1) : Drawn(i) = {}
        /\ Mode # "off" =>
              /\ Len(mesh_plots) = images
              /\ \A i \in 0..(images - 1) :
                   /\ mesh_plots[i + 1].ax = i
                   /\ Cardinality(Drawn(i)) = 1
                   /\ Len(axes[i + 1]) = 1
                   /\ \A a \in Drawn(i) :
                        /\ a.id = mesh_plots[i + 1].id
                        /\ a.style = (IF Mode = "grid" THEN "-" ELSE ".")

\* a switch from another mode to point cloud with two images: two plots,
\* both with '.'
C17_Witness ==
    /\ trigger = "currentIndexChanged" /\ Mode = "point cloud" /\ raised = "none"
    /\ images = 2 /\ Len(mesh_plots) = 2
    /\ \A i \in 0..1 : \A a \in Drawn(i) : a.style = "." /\ a.data.args = sliders

(***************************************************************************)
(* SliderAndTextbox of gcs/utils/widgets.py.  The slider is a QSlider: an  *)
(* integer position kept within [minimum, maximum].  The number box is a   *)
(* QDoubleSpinBox: a value rounded to its decimals and kept within         *)
(* [minimum, maximum].  Both emit valueChanged only when setValue changes  *)
(* the value, and the connected handler runs at once, inside setValue.     *)
(***************************************************************************)
MaxTicks == 30

\* int(x): truncation towards zero
int_(x) == IF x.n >= 0 THEN x.n \div x.d ELSE -((-x.n) \div x.d)

\* round(x): to the nearest integer, ties to the even one
round(x) ==
    Bind(x.n \div x.d, LAMBDA f :
    Bind(RSub(x, RInt(f)), LAMBDA r :
        IF RLess(r, Rat(1, 2)) THEN f
        ELSE IF RLess(Rat(1, 2), r) THEN f + 1
        ELSE IF f % 2 = 0 THEN f ELSE f + 1))

\* -int(math.log10(resolution)) for a resolution 10 ** -d
decimals(resolution) == CHOOSE d \in 0..4 : Rat(1, 10 ^ d) = resolution

Bound(lo, x, hi) == IF RLess(x, lo) THEN lo ELSE IF RLess(hi, x) THEN hi ELSE x

\* the value QDoubleSpinBox.setValue(x) leaves in the box
SpinValue(cfg, x) ==
    Bind(RInt(10 ^ decimals(cfg.resolution)), LAMBDA scale :
    Bind(RMul(x, scale), LAMBDA scaled :
    Bind(RDiv(RInt(round(scaled)), scale), LAMBDA rounded :
        Bound(cfg.min, rounded, cfg.max))))

\* slider.minimum(), slider.maximum()
SliderMinimum(cfg) == int_(RDiv(cfg.min, cfg.resolution))

SliderMaximum(cfg) == int_(RDiv(cfg.max, cfg.resolution))

\* the position QSlider.setValue(v) leaves in the slider
SliderValue(cfg, v) ==
    Bind(SliderMinimum(cfg), LAMBDA lo :
    Bind(SliderMaximum(cfg), LAMBDA hi :
        IF v < lo THEN lo ELSE IF v > hi THEN hi ELSE v))

\* mutant of SliderTarget: the resolution left out
SliderTargetNoResolution(cfg, value) ==
    Bind(value, LAMBDA ticks : int_(RInt(round(ticks))))

\* int(round(self.numbox.value() / self.resolution))
SliderTarget(cfg, value) ==
    Bind(RDiv(value, cfg.resolution), LAMBDA ticks : int_(RInt(round(ticks))))

\* the constructor arguments: the default resolution 0.01, a range from 0 or
\* symmetric about 0, an initial value in it
Configs ==
    {[min |-> RMul(RInt(lo), Rat(1, 100)), max |-> RMul(RInt(MaxTicks), Rat(1, 100)),
      init |-> RMul(RInt(i), Rat(1, 100)), resolution |-> Rat(1, 100)] :
        lo \in {0, -MaxTicks}, i \in {0, 29, MaxTicks}}

\* the hundredths h up to 100 whose float quotient (h / 100) / 0.01 is just
\* below h, as 0.29 / 0.01 = 28.999999999999996
FloatBelow == {29, 47, 57, 58, 59, 94}

\* int(init / resolution) in float arithmetic: the quotient is truncated
InitTicks(cfg) ==
    Bind(RDiv(cfg.init, cfg.resolution), LAMBDA q :
        IF cfg.resolution = Rat(1, 100) /\ q.d = 1 /\ Abs(q.n) \in FloatBelow
        THEN Sign(q.n) * (Abs(q.n) - 1)
        ELSE int_(q))

SliderFrame(value) == [fn |-> "handleSliderValueChange", value |-> value, pc |-> "setValue"]

NumboxFrame(value) == [fn |-> "handleNumboxValueChange", value |-> value, pc |-> "check"]

\* __init__: the handlers are connected after the values are set
WidgetInit ==
    /\ NoCall /\ NoGui /\ NoDebounce
    /\ config \in Configs
    /\ slider = SliderValue(config, InitTicks(config))
    /\ numbox = SpinValue(config, config.init)
    /\ stack = <<>>
    /\ chain = <<>>

\* the user drags the slider to another position
MoveSlider ==
    \E v \in SliderMinimum(config)..SliderMaximum(config) :
        /\ stack = <<>>
        /\ v # slider
        /\ slider' = v
        /\ stack' = <<SliderFrame(v)>>
        /\ chain' = <<>>
        /\ UNCHANGED <<config, numbox, gcsVars, guiVars, debounceVars>>

\* the user enters another value in the number box: the box accepts values
\* of its range with its decimals
EditNumbox ==
    \E v \in SliderMinimum(config)..SliderMaximum(config) :
        LET x == RMul(RInt(v), config.resolution)
        IN  /\ stack = <<>>
            /\ x # numbox
            /\ numbox' = x
            /\ stack' = <<NumboxFrame(x)>>
            /\ chain' = <<>>
            /\ UNCHANGED <<config, slider, gcsVars, guiVars, debounceVars>>

\* handleSliderValueChange: self.numbox.setValue(value * self.resolution)
HandleSliderValueChange ==
    /\ stack # <<>> /\ Head(stack).fn = "handleSliderValueChange"
    /\ LET new == SpinValue(config, RMul(RInt(Head(stack).value), config.resolution))
       IN  /\ numbox' = new
           /\ stack' = IF new # numbox THEN <<NumboxFrame(new)>> \o Tail(stack)
                       ELSE Tail(stack)
    /\ chain' = Append(chain, "handleSliderValueChange")
    /\ UNCHANGED <<config, slider, gcsVars, guiVars, debounceVars>>

\* handleNumboxValueChange, the range check against the slider's bounds
HandleNumboxRange ==
    /\ stack # <<>> /\ Head(stack).fn = "handleNumboxValueChange"
    /\ Head(stack).pc = "check"
    /\ LET value == Head(stack).value
           new   == IF RLess(value, RInt(SliderMinimum(config)))
                    THEN SpinValue(config, RInt(SliderMinimum(config)))
                    ELSE IF RLess(RInt(SliderMaximum(config)), value)
                    THEN SpinValue(config, RInt(SliderMaximum(config)))
                    ELSE numbox
           rest  == <<[Head(stack) EXCEPT !.pc = "sync"]>> \o Tail(stack)
       IN  /\ numbox' = new
           /\ stack' = IF new # numbox THEN <<NumboxFrame(new)>> \o rest ELSE rest
    /\ chain' = Append(chain, "handleNumboxValueChange")
    /\ UNCHANGED <<config, slider, gcsVars, guiVars, debounceVars>>

\* handleNumboxValueChange, the last line: the slider follows the box
HandleNumboxSync ==
    /\ stack # <<>> /\ Head(stack).fn = "handleNumboxValueChange"
    /\ Head(stack).pc = "sync"
    /\ LET new == Bind(SliderTarget(config, numbox), LAMBDA target :
                      SliderValue(config, target))
       IN  /\ slider' = new
           /\ stack' = IF new # slider THEN <<SliderFrame(new)>> \o Tail(stack)
                       ELSE Tail(stack)
    /\ UNCHANGED <<config, numbox, chain, gcsVars, guiVars, debounceVars>>

\* a handler on the stack runs
Handle == HandleSliderValueChange \/ HandleNumboxRange \/ HandleNumboxSync

WidgetNext ==
    MoveSlider \/ EditNumbox \/ HandleSliderValueChange \/ HandleNumboxRange
      \/ HandleNumboxSync

\* a handler that was called runs on: the calls are direct, in one thread
SpecWidget == WidgetInit /\ [][WidgetNext]_vars /\ WF_vars(Handle)

(***************************************************************************)
(* Claims about SliderAndTextbox                                           *)
(***************************************************************************)
\* the slider shows the value of the box, and the box is in its range
Consistent ==
    /\ slider = round(RDiv(numbox, config.resolution))
    /\ ~RLess(numbox, config.min) /\ ~RLess(config.max, numbox)

\* C18: after any sequence of slider moves and text-box edits the chain of
\* valueChanged handlers started by each change terminates, and when it has
\* finished the slider position equals round(numbox value / resolution) and
\* the numbox value lies within [min, max].
C18_StaysConsistent ==
    /\ [](stack = <<>> => Consistent)
    /\ (stack # <<>>) ~> (stack = <<>>)

\* what the widget does keep: every chain of handlers terminates, and once a
\* change has been handled the slider and the box agree
C18_ConsistentAfterChange ==
    /\ [](stack = <<>> /\ chain # <<>> => Consistent)
    /\ (stack # <<>>) ~> (stack = <<>>)

\* the widget as constructed from a stored value of 0.29: the box shows 0.29,
\* the slider is at 28
C18_TruncatedAtInit ==
    /\ stack = <<>> /\ chain = <<>>
    /\ numbox = Rat(29, 100) /\ slider = 28
    /\ ~Consistent

\* an edit of the box has moved the slider to the lower end of a range that
\* starts below zero, and the chain has finished
C18_Witness ==
    /\ stack = <<>>
    /\ chain = <<"handleNumboxValueChange", "handleSliderValueChange">>
    /\ RLess(numbox, Zero) /\ numbox = config.min /\ slider = -MaxTicks
    /\ config.init # config.min

(***************************************************************************)
(* debounce of utils/debounce.py.  The clock counts milliseconds, the unit *)
(* of the timers of the figure's canvas; wait is given in seconds.  A      *)
(* timer is single shot: it runs its callback once, at or after the end of *)
(* its interval, unless it is stopped before.  Invocations and callbacks   *)
(* run one at a time on the event loop of the canvas.                      *)
(***************************************************************************)
MaxTime == 5

MaxCalls == 3

\* debounce(wait, fig): the waits tried, in seconds
Waits == {Rat(2, 1000), Rat(3, 1000)}

\* the positional arguments of an invocation; "[]" is a list
ArgTuples == {<<"x">>, <<"y">>, <<"[]">>}

\* a tuple is a dictionary key when all of its elements are hashable
Hashable(args) == \A i \in DOMAIN args : args[i] # "[]"

\* fig.canvas.new_timer(wait * 1000): the interval in milliseconds
Interval(w) == int_(RMul(w, RInt(1000)))

\* mutant of StopEarlier: the earlier timer keeps running
StopNothing(ts, table, args) == ts

\* try: debounced.t[args].stop()   except (KeyError, ValueError): pass
StopEarlier(ts, table, args) == IF args \in DOMAIN table THEN [ts EXCEPT ![table[args]].running = FALSE] ELSE ts

\* timer = new_timer(...); add_callback(call_it); single_shot = True; start()
NewTimer(args, w, at) == [args |-> args, interval |-> Interval(w), started |-> at, running |-> TRUE]

\* debounced.t[args] = timer
Store(table, args, id) == [a \in DOMAIN table \cup {args} |-> IF a = args THEN id ELSE table[a]]

\* the decorator has been applied: debounced.t = {}
DebounceInit ==
    /\ NoCall /\ NoGui /\ NoWidget
    /\ wait \in Waits
    /\ debounced_t = <<>>
    /\ timers = <<>>
    /\ now = 0
    /\ invoked = <<>>
    /\ executed = <<>>

\* debounced(*args): the lookup of an unhashable tuple raises TypeError,
\* which the except clause does not catch
Invoke ==
    \E args \in ArgTuples :
        /\ Len(invoked) < MaxCalls
        /\ now + Interval(wait) <= MaxTime
        /\ IF Hashable(args)
           THEN /\ timers' = Append(StopEarlier(timers, debounced_t, args),
                                    NewTimer(args, wait, now))
                /\ debounced_t' = Store(debounced_t, args, Len(timers) + 1)
                /\ invoked' = Append(invoked, [args |-> args, at |-> now,
                                               timer |-> Len(timers) + 1,
                                               raised |-> "None"])
           ELSE /\ invoked' = Append(invoked, [args |-> args, at |-> now,
                                               timer |-> 0, raised |-> "TypeError"])
                /\ UNCHANGED <<timers, debounced_t>>
        /\ UNCHANGED <<wait, now, executed, gcsVars, guiVars, widgetVars>>

\* a millisecond passes
Tick ==
    /\ now < MaxTime
    /\ now' = now + 1
    /\ UNCHANGED <<wait, debounced_t, timers, invoked, executed, gcsVars, guiVars,
                   widgetVars>>

\* the event loop runs the callback of a timer whose interval has ended:
\* call_it calls fn(*args, **kwargs)
Fire ==
    \E i \in DOMAIN timers :
        /\ timers[i].running
        /\ now >= timers[i].started + timers[i].interval
        /\ timers' = [timers EXCEPT ![i].running = FALSE]
        /\ executed' = Append(executed, [args |-> timers[i].args, at |-> now,
                                         timer |-> i, calls |-> Len(invoked)])
        /\ UNCHANGED <<wait, debounced_t, now, invoked, gcsVars, guiVars, widgetVars>>

DebounceNext == Invoke \/ Tick \/ Fire

\* time passes, and the event loop runs the timers that are due
SpecDebounce ==
    DebounceInit /\ [][DebounceNext]_vars /\ WF_vars(Tick) /\ WF_vars(Fire)

(***************************************************************************)
(* Claims about debounce                                                   *)
(***************************************************************************)
\* the invocations of args among the first n that returned normally
Accepted(args, n) == {j \in 1..n : invoked[j].args = args /\ invoked[j].raised = "None"}

\* the last of them
LastOf(js) == CHOOSE j \in js : \A i \in js : i <= j

\* the timers of args that are pending
Pending(args) == {i \in DOMAIN timers : timers[i].running /\ timers[i].args = args}

\* the executions run by timer i
RunsOf(i) == {e \in DOMAIN executed : executed[e].timer = i}

\* no timer is pending
Quiet == \A i \in DOMAIN timers : ~timers[i].running

\* an execution belongs to the last invocation made before it, and comes
\* no sooner than wait seconds after that invocation
WaitElapsed ==
    \A e \in DOMAIN executed :
        LET js == Accepted(executed[e].args, executed[e].calls)
        IN  /\ js # {}
            /\ invoked[LastOf(js)].timer = executed[e].timer
            /\ ~RLess(Rat(executed[e].at - invoked[LastOf(js)].at, 1000), wait)

\* of two invocations with the same arguments less than wait seconds apart,
\* the earlier one is never executed
BurstCollapses ==
    \A i, j \in DOMAIN invoked :
        (/\ i < j /\ invoked[i].args = invoked[j].args
         /\ invoked[i].raised = "None" /\ invoked[j].raised = "None"
         /\ RLess(Rat(invoked[j].at - invoked[i].at, 1000), wait))
            => RunsOf(invoked[i].timer) = {}

\* the last invocation of each argument tuple is pending or has been executed
\* exactly once, and no timer runs its callback twice
ExactlyOnce ==
    /\ \A i \in DOMAIN timers : Cardinality(RunsOf(i)) <= 1
    /\ \A args \in ArgTuples :
        LET js == Accepted(args, Len(invoked))
        IN  js # {} =>
                LET last == invoked[LastOf(js)].timer
                IN  IF timers[last].running THEN RunsOf(last) = {}
                    ELSE Cardinality(RunsOf(last)) = 1

\* at most one timer per argument tuple is pending
OnePending == \A args \in ArgTuples : Cardinality(Pending(args)) <= 1

====
